---------------------------- MODULE Spec2Model ----------------------------
(***************************************************************************)
(* Sleep-replay control of the two simulations of                          *)
(* schapirolab/SinghNormanSchapiro_PNAS22 (simulation 1 and simulation 2,  *)
(* both held in src/simulation_1/simulation_1.go).                         *)
(*                                                                         *)
(* The model follows one Sim object through wake trials and sleep bouts:   *)
(* SleepTrial = SleepCycInit; SleepCyc (snapshot, cycle loop, teardown);   *)
(* BackToWake.  One action is one step of that control flow; one pass of   *)
(* the cycle loop is one action.                                           *)
(*                                                                         *)
(* Numbers: similarities and thresholds are integers in units of 1e-6,     *)
(* inhibition conductances in units of 1e-3, oscillation gains and angles  *)
(* in units of 1e-4.  NaN is a separate value on which every comparison    *)
(* is false, as in IEEE arithmetic.                                        *)
(***************************************************************************)
EXTENDS Integers, Sequences, FiniteSets, TLC

VARIABLES
    simv,           \* which program: 1 = simulation 1, 2 = simulation 2
    scen,           \* "none", or the stability scenario imposed on the bout
    pc,             \* position of the control flow
    caller,         \* "none", "train" (TrainTrial) or "gui" (toolbar button)
    IsRunning,      \* Sim.IsRunning
    seq,            \* number of the bout within TrainTrial's sleep sequence
    SlpWrtOut,      \* Sim.SlpWrtOut (sim 1) / Sim.SlpPatMatchWrtOut (sim 2)
    InhibOscil,     \* Sim.InhibOscil
    SleepCounter,   \* Sim.SleepCounter (sim 2)
    stage,          \* stage argument of SleepTrial / SleepCyc
    cycles,         \* cycle budget of the bout
    cyc,            \* loop variable of the cycle loop
    PlusPhase,      \* Sim.PlusPhase
    MinusPhase,     \* Sim.MinusPhase
    stablecount,    \* local of SleepCyc
    pluscount,      \* local of SleepCyc
    minuscount,     \* local of SleepCyc
    SlpTrls,        \* Sim.SlpTrls
    AvgLaySim,      \* Sim.AvgLaySim
    Gi,             \* layer -> Inhib.Layer.Gi
    snap,           \* the inhibition snapshot locals of SleepCyc
    SdInstalled,    \* synaptic depression installed on the network
    Table,          \* Sim.TrainEnv.Table: the set of items trained on
    ABover,         \* Sim.ABover
    ABZero,         \* Sim.ABZero
    ACZero,         \* Sim.ACZero
    TrainABSSE,     \* Sim.TrainABSSE: 0, or 1 for any value other than 0
    TrainACSSE,     \* Sim.TrainACSSE: 0, or 1 for any value other than 0
    NeedsNewRun,    \* Sim.NeedsNewRun
    crit,           \* TrainTrial is in the branch taken once the learning
                    \* criterion is met
    StopNow,        \* Sim.StopNow
    Lrate,          \* Learn.Lrate of the projections between CTX and the
                    \* input and output layers, in units of 1e-4
    Learn,          \* projection <<sender, receiver>> -> Learn.Learn
    obs             \* observations of the run (history, not program state)

ctlVars  == <<simv, scen, pc, caller, IsRunning, seq>>
cfgVars  == <<SlpWrtOut, InhibOscil, SleepCounter, stage, cycles>>
detVars  == <<PlusPhase, MinusPhase, stablecount, pluscount, minuscount,
              SlpTrls, AvgLaySim>>
netVars  == <<Gi, snap, SdInstalled>>
trnVars  == <<Table, ABover, ABZero, ACZero, TrainABSSE, TrainACSSE,
              NeedsNewRun, crit>>
lrnVars  == <<Lrate, Learn>>
vars     == <<ctlVars, cfgVars, cyc, detVars, netVars, trnVars, StopNow,
              lrnVars, obs>>

-----------------------------------------------------------------------------
(* Bounds *)

\* stands for the cycle budget of a bout (30000 in simulation 1, 10000 in
\* simulation 2)
MaxCycles == 14

(* Program constants *)

NaN == -1
StableLen == 5
SlpTrlOcc == FALSE
SynDep == TRUE
SlpLearn == TRUE
ExecSleep == TRUE
SleepIters == 5
OverTrain == 30

Layers1 == {"F1", "F2", "F3", "F4", "F5", "ClassName", "CodeName",
            "DG", "CA3", "pCA1", "dCA1", "CTX"}
Layers2 == {"EXT", "Input", "Output", "DG", "CA3", "pCA1", "dCA1", "CTX"}
NetLayers(s) == IF s = 1 THEN Layers1 ELSE Layers2
AllLayers == Layers1 \cup Layers2


-----------------------------------------------------------------------------
(* Comparisons of float64 values; every comparison with NaN is false. *)

GE(a, b) == a # NaN /\ a >= b
LT(a, b) == a # NaN /\ a < b

(***************************************************************************)
(* Thresholds of the phase detector, in units of 1e-6.  Simulation 1 has   *)
(* one pair; simulation 2 starts from a default pair and overrides it for  *)
(* the stages SWS and REM.  A scenario bout runs the detector with the     *)
(* thresholds the scenario states (0.9999 and 0.9974).                     *)
(***************************************************************************)
PlusThresh(s, st, sc) ==
    IF sc # "none" THEN 999900
    ELSE IF s = 1 THEN 999965
    ELSE IF st = "SWS" THEN 999950
    ELSE IF st = "REM" THEN 999995
    ELSE 999900

MinusThresh(s, st, sc) ==
    IF sc # "none" THEN 999900 - 2500
    ELSE IF s = 1 THEN 999965 - 2500
    ELSE IF st = "SWS" THEN 999950 - 2500
    ELSE IF st = "REM" THEN 999995 - 2500
    ELSE 999900 - 10000

(***************************************************************************)
(* The layers whose similarity enters the stability average, and the       *)
(* divisor of the average.                                                 *)
(***************************************************************************)
SimLayers(s, st) ==
    IF s = 1 THEN Layers1
    ELSE IF st = "REM" THEN {"Input", "Output", "CTX"}
    ELSE IF st = "SWS" THEN {"Input", "Output", "CTX", "DG", "CA3", "pCA1", "dCA1"}
    ELSE {}

SimDivisor(s, st) == IF s = 1 THEN 12 ELSE Cardinality(SimLayers(s, st))

RECURSIVE SumOver(_, _)
SumOver(f, S) ==
    IF S = {} THEN 0
    ELSE LET x == CHOOSE y \in S : TRUE IN f[x] + SumOver(f, S \ {x})

\* one layer's contribution: NaN counts 0; in simulation 2 a layer whose
\* summed activation is below 1 counts 0 as well
LayerTmpSim(s, lsim, lact, l) ==
    IF lsim[l] = NaN THEN 0
    ELSE IF s = 2 /\ lact[l] < 1 THEN 0
    ELSE lsim[l]

\* ss.AvgLaySim = avesim / n ; 0/0 is NaN
CalcAvgLaySim(s, st, lsim, lact) ==
    LET lys == SimLayers(s, st)
        tmp == [l \in lys |-> LayerTmpSim(s, lsim, lact, l)]
        n   == SimDivisor(s, st)
    IN IF n = 0 THEN NaN ELSE SumOver(tmp, lys) \div n

(***************************************************************************)
(* The phase detector: the if / else-if chain evaluated once per cycle.    *)
(* d is the detector state before the cycle, a the stability value, p and  *)
(* m the thresholds.  The result carries the new detector state, the       *)
(* branch taken, whether the weight update (SlpDWt) was issued, and the    *)
(* divisors handed to CalcActP / CalcActM (-1: not called).                *)
(***************************************************************************)
StableCountNoReset(d, a, p) ==
    IF ~d.PlusPhase /\ ~d.MinusPhase /\ GE(a, p) THEN d.stablecount + 1
    ELSE d.stablecount

StableCount(d, a, p) ==
    IF ~d.PlusPhase /\ ~d.MinusPhase
    THEN IF GE(a, p) THEN d.stablecount + 1
         ELSE IF LT(a, p) THEN 0 ELSE d.stablecount
    ELSE d.stablecount

PlusStart(d, sc) ==
    [d EXCEPT !.stablecount = 0, !.minuscount = 0, !.PlusPhase = TRUE,
              !.pluscount = d.pluscount + 1, !.branch = "plusStart"]

PlusCont(d, sc) ==
    [d EXCEPT !.stablecount = sc, !.pluscount = d.pluscount + 1,
              !.branch = "plusCont"]

ToMinusKeepPlus(d, sc) ==
    [d EXCEPT !.stablecount = sc, !.MinusPhase = TRUE,
              !.minuscount = d.minuscount + 1, !.actP = d.pluscount,
              !.pluscount = 0, !.branch = "toMinus"]

ToMinus(d, sc) ==
    [d EXCEPT !.stablecount = sc, !.PlusPhase = FALSE, !.MinusPhase = TRUE,
              !.minuscount = d.minuscount + 1, !.actP = d.pluscount,
              !.pluscount = 0, !.branch = "toMinus"]

MinusCont(d, sc) ==
    [d EXCEPT !.stablecount = sc, !.minuscount = d.minuscount + 1,
              !.branch = "minusCont"]

MinusEndToPlus(d, sc) ==
    [d EXCEPT !.MinusPhase = FALSE, !.PlusPhase = TRUE, !.actM = d.minuscount,
              !.minuscount = 0, !.pluscount = 1, !.stablecount = 0,
              !.branch = "minusEnd"]

MinusEnd(d, sc) ==
    [d EXCEPT !.MinusPhase = FALSE, !.actM = d.minuscount, !.minuscount = 0,
              !.stablecount = 0, !.branch = "minusEnd"]

PlusAbortKeepCount(d, sc) ==
    [d EXCEPT !.PlusPhase = FALSE, !.stablecount = 0, !.minuscount = 0,
              !.branch = "abort"]

PlusAbortAsMinus(d, sc) ==
    [d EXCEPT !.PlusPhase = FALSE, !.MinusPhase = TRUE,
              !.minuscount = d.minuscount + 1, !.actP = d.pluscount,
              !.pluscount = 0, !.branch = "toMinus"]

PlusAbort(d, sc) ==
    [d EXCEPT !.PlusPhase = FALSE, !.pluscount = 0, !.stablecount = 0,
              !.minuscount = 0, !.branch = "abort"]

NoBranch(d, sc) ==
    [d EXCEPT !.stablecount = sc, !.branch = "stable"]

PhaseDetect(d0, a, p, m) ==
    LET sc == StableCount(d0, a, p)
        d  == [d0 EXCEPT !.actP = -1, !.actM = -1]
    IN IF sc = StableLen /\ GE(a, p) /\ ~d.PlusPhase /\ ~d.MinusPhase
         THEN PlusStart(d, sc)
       ELSE IF d.pluscount > 0 /\ GE(a, p) /\ d.PlusPhase
         THEN PlusCont(d, sc)
       ELSE IF LT(a, p) /\ GE(a, m) /\ d.PlusPhase
         THEN ToMinus(d, sc)
       ELSE IF GE(a, m) /\ d.MinusPhase
         THEN MinusCont(d, sc)
       ELSE IF LT(a, m) /\ d.MinusPhase
         THEN MinusEnd(d, sc)
       ELSE IF LT(a, m) /\ d.PlusPhase
         THEN PlusAbort(d, sc)
       ELSE NoBranch(d, sc)

\* the weight update is issued in the branch that ends a Minus phase
\* (simulation 1: unless SlpTrlOcc)
DWtIssued(s, d) ==
    d.branch = "minusEnd" /\ (s = 2 \/ SlpTrlOcc = FALSE)

\* SlpTrls after the cycle: simulation 1 counts inside the loop over the
\* network's layers, simulation 2 once after it
SlpTrlsAfter(s, d, n) ==
    IF d.branch # "minusEnd" THEN n
    ELSE IF s = 1 THEN (IF SlpTrlOcc = FALSE THEN n + Cardinality(Layers1) ELSE n)
    ELSE n + 1

-----------------------------------------------------------------------------
(***************************************************************************)
(* The inhibition gain schedule built in SleepTrial:                       *)
(*   c[g][i] = Amp_g * math.Sin(2*3.14/OscillPeriod * i) + OscillMidline   *)
(* Angles and values are in units of 1e-4.  The sine is computed by range  *)
(* reduction to [0, pi/2] and its Taylor polynomial up to x^7.             *)
(***************************************************************************)
OscillAmp(s, g) ==
    IF s = 1 THEN (IF g = "low" THEN 150 ELSE 500)
    ELSE (IF g = "low" THEN 600 ELSE 300)

\* OscillPeriod := 50.
OscillPeriod == 50

\* 2*3.14/50 in units of 1e-4 radians
OscillStep == 1256

\* sine of x, 0 <= x <= pi/2 (15708), both in units of 1e-4
SinQuarter(x) ==
    LET x2 == (x * x) \div 10000
        x3 == (x2 * x) \div 10000
        x5 == (x3 * x2) \div 10000
        x7 == ((x5 \div 10) * x2) \div 1000
    IN x - (x3 \div 6) + (x5 \div 120) - (x7 \div 5040)

\* sine of a >= 0, in units of 1e-4; 2*pi = 62832, pi = 31416
SinE4(a) ==
    LET r == a % 62832
        h == IF r >= 31416 THEN r - 31416 ELSE r
        q == IF h > 15708 THEN 31416 - h ELSE h
        v == SinQuarter(q)
    IN IF r >= 31416 THEN 0 - v ELSE v

\* c[g][i], in units of 1e-4 (midline 1.0 = 10000)
Gain(s, g, i) == ((OscillAmp(s, g) * SinE4(OscillStep * i)) \div 10000) + 10000

LowLayers(s) ==
    IF s = 1 THEN {"ClassName", "CTX", "pCA1", "dCA1"}
    ELSE {"Input", "Output", "CTX", "pCA1", "dCA1"}

HighLayers(s) ==
    IF s = 1 THEN {"F1", "F2", "F3", "F4", "F5", "DG", "CA3"}
    ELSE {"DG", "CA3"}

\* the layers whose Gi is read into a local before the cycle loop
SnapLayers(s) ==
    IF s = 1 THEN {"F1", "ClassName", "CodeName", "DG", "CA3", "CTX", "pCA1", "dCA1"}
    ELSE {"Input", "DG", "CA3", "CTX", "Output", "pCA1", "dCA1"}

\* the snapshot local a layer is set back from (simulation 1 sets F1..F5
\* from the snapshot of F1); "" for a layer that is never set back
SnapKey(s, l) ==
    IF s = 1 /\ l \in {"F1", "F2", "F3", "F4", "F5"} THEN "F1"
    ELSE IF l \in SnapLayers(s) THEN l
    ELSE ""

TakeSnapshot(s, gi) == [l \in SnapLayers(s) |-> gi[l]]

RestoreGiSkip(s, sn, gi) == gi

\* "Changing Inhibs back to default": every layer with a snapshot local
RestoreGi(s, sn, gi) ==
    [l \in DOMAIN gi |-> IF SnapKey(s, l) # "" THEN sn[SnapKey(s, l)] ELSE gi[l]]

OscilGiCompound(s, sn, gi, i) ==
    [l \in DOMAIN gi |->
          IF l \in LowLayers(s) THEN (gi[l] * Gain(s, "low", i)) \div 10000
          ELSE IF l \in HighLayers(s) THEN (gi[l] * Gain(s, "high", i)) \div 10000
          ELSE gi[l]]

\* one oscillation step for cycle index i
OscilGi(s, sn, gi, i) ==
    LET base == RestoreGi(s, sn, gi)
    IN [l \in DOMAIN gi |->
          IF l \in LowLayers(s) THEN (base[l] * Gain(s, "low", i)) \div 10000
          ELSE IF l \in HighLayers(s) THEN (base[l] * Gain(s, "high", i)) \div 10000
          ELSE base[l]]

-----------------------------------------------------------------------------
(***************************************************************************)
(* Learning during sleep.  SleepCyc writes the learning rate of the        *)
(* projections between CTX and the input and output layers and switches    *)
(* Learn.Learn of the hippocampal projections: simulation 1 before and     *)
(* after the cycle loop, simulation 2 at the head and the tail of every    *)
(* pass.  A projection is the pair <<sender, receiver>>.                   *)
(***************************************************************************)
SleepLrate(s) == IF s = 1 THEN 300 ELSE 500
WakeLrate == 1

PerLys == {"F1", "F2", "F3", "F4", "F5", "ClassName", "CodeName"}

\* the projections whose Learn.Learn is set false
OffPrjns(s) ==
    IF s = 1
    THEN UNION {{<<l, "DG">>, <<l, "CA3">>, <<l, "dCA1">>, <<"pCA1", l>>,
                 <<"dCA1", l>>} : l \in PerLys}
         \cup {<<"CA3", "CA3">>, <<"CA3", "pCA1">>}
    ELSE {<<"Input", "DG">>, <<"CA3", "CA3">>, <<"CA3", "pCA1">>,
          <<"Input", "dCA1">>, <<"dCA1", "Output">>, <<"pCA1", "Output">>,
          <<"Output", "pCA1">>, <<"Output", "dCA1">>}

\* the projections whose Learn.Learn is set true again
OnPrjns(s) ==
    IF s = 1
    THEN UNION {{<<l, "DG">>, <<l, "CA3">>, <<l, "dCA1">>, <<"pCA1", l>>,
                 <<"dCA1", l>>} : l \in PerLys}
         \cup {<<"CA3", "CA3">>, <<"CA3", "pCA1">>}
    ELSE {<<"Input", "DG">>, <<"Input", "CA3">>, <<"CA3", "CA3">>,
          <<"CA3", "pCA1">>, <<"Input", "dCA1">>, <<"dCA1", "Output">>,
          <<"pCA1", "Output">>, <<"Output", "pCA1">>, <<"Output", "dCA1">>}

LearnPrjns(s) == OffPrjns(s) \cup OnPrjns(s)

LearnOff(s, lrn) ==
    [q \in DOMAIN lrn |-> IF q \in OffPrjns(s) THEN FALSE ELSE lrn[q]]
LearnOn(s, lrn) ==
    [q \in DOMAIN lrn |-> IF q \in OnPrjns(s) THEN TRUE ELSE lrn[q]]

-----------------------------------------------------------------------------
(* Inputs of one cycle: what the network engine reports. *)

\* cycle budget of a bout: the scenarios state theirs (A: 200 cycles; B runs
\* on after cycle 20)
Budget(sc) == IF sc = "A" THEN 200 ELSE IF sc = "B" THEN 40 ELSE MaxCycles

\* stability the scenario dictates for cycle index i
ScenValue(sc, i) ==
    IF sc = "A" THEN (IF i < 100 THEN 999950 ELSE 900000)
    ELSE IF i < 10 THEN 999950
    ELSE IF i < 20 THEN 998000
    ELSE 900000

\* similarity values a layer may report: both sides of, and exactly on, the
\* two thresholds in force, and 1 (no change since the last cycle)
SimValues(s, st) ==
    {MinusThresh(s, st, "none") - 1, MinusThresh(s, st, "none"),
     PlusThresh(s, st, "none") - 1, PlusThresh(s, st, "none"), 1000000}

\* the layer that may misbehave in a cycle, and how: its similarity is NaN,
\* or its activation has died out
BadLayer == "CTX"
BadKinds == {"none", "nan", "dead"}

CycleInputs(s, st, sc, i) ==
    IF sc = "none"
    THEN [v : SimValues(s, st), bad : BadKinds]
    ELSE {[v |-> ScenValue(sc, i), bad |-> "none"]}

LaySim(s, in) ==
    [l \in NetLayers(s) |-> IF in.bad = "nan" /\ l = BadLayer THEN NaN ELSE in.v]
LayAct(s, in) ==
    [l \in NetLayers(s) |-> IF in.bad = "dead" /\ l = BadLayer THEN 0 ELSE 1]

-----------------------------------------------------------------------------
(* State after construction (New, Config, Init) *)

\* Inhib.Layer.Gi of each layer in units of 1e-3, as set from the parameter
\* sheets; layers of one class share a value
InitGi(s, base) ==
    [l \in NetLayers(s) |->
        IF l \in {"F1", "F2", "F3", "F4", "F5"} THEN base
        ELSE IF l \in {"ClassName", "Input", "EXT"} THEN base + 100
        ELSE IF l \in {"CodeName", "Output"} THEN base + 200
        ELSE IF l = "DG" THEN base + 2000
        ELSE IF l = "CA3" THEN base + 1000
        ELSE IF l = "CTX" THEN base + 300
        ELSE IF l = "pCA1" THEN base + 400
        ELSE base + 500]

GiBases == {1800}

ObsInit ==
    [branch |-> "none", dwtNow |-> FALSE, dwt |-> 0, completed |-> 0,
     minusEntry |-> "none", dwtEntry |-> "none", actP |-> -1, actM |-> -1,
     sdInits |-> 0, sdTerms |-> 0, wakeSd |-> FALSE, preGi |-> << >>,
     same |-> FALSE, v0 |-> 0, preSd |-> FALSE,
     abSeen |-> FALSE, abSince |-> 0, acDone |-> FALSE,
     stopCyc |-> 0, stopIn |-> FALSE, run |-> 0, netGi |-> << >>,
     preLrate |-> 0, dwtLearn |-> {}]

InitCommon ==
    /\ simv \in {1, 2}
    /\ pc = "wake"
    /\ seq = 0
    /\ InhibOscil = TRUE
    /\ SleepCounter = 0
    /\ stage = "PreSleep"
    /\ cycles = 0
    /\ cyc = 0
    /\ PlusPhase = FALSE
    /\ MinusPhase = FALSE
    /\ stablecount = 0
    /\ pluscount = 0
    /\ minuscount = 0
    /\ SlpTrls = 0
    /\ AvgLaySim = 0
    /\ \E b \in GiBases : Gi = InitGi(simv, b)
    /\ snap = << >>
    /\ SdInstalled = FALSE
    /\ ABover = 0
    /\ TrainABSSE = 0
    /\ TrainACSSE = 0
    /\ NeedsNewRun = FALSE
    /\ StopNow = FALSE
    /\ Lrate = WakeLrate
    /\ Learn = [q \in LearnPrjns(simv) |-> TRUE]
    /\ obs = ObsInit

\* the table NewRun installs
RunTable(s) == IF s = 1 THEN "Sat" ELSE "AB"

\* New() followed by Init(): the first run is set up, nothing is learned
InitTrain ==
    /\ Table = RunTable(simv)
    /\ ABZero = FALSE
    /\ ACZero = FALSE
    /\ crit = FALSE

\* New() leaves the output flags off; README: they are switched on by
\* editing New()
Init ==
    /\ InitCommon
    /\ InitTrain
    /\ scen = "none"
    /\ caller = "none"
    /\ IsRunning = FALSE
    /\ SlpWrtOut \in BOOLEAN

-----------------------------------------------------------------------------
(* Run control *)

\* number of bouts of one sleep sequence of TrainTrial
NBoutsHalf(s) == IF s = 1 THEN 1 ELSE SleepIters

NBouts(s) == IF s = 1 THEN 1 ELSE 2 * SleepIters

\* bouts TrainTrial runs once the criterion is met: simulation 1 calls
\* SleepTrial only inside "if ss.ExecSleep && ss.SlpWrtOut"
BoutsDue(s, wrt) == IF s = 1 /\ ~(ExecSleep /\ wrt) THEN 0 ELSE NBouts(s)

\* "if ss.NeedsNewRun { ss.NewRun() }" at the head of TrainTrial
TableNow == IF NeedsNewRun THEN RunTable(simv) ELSE Table
ABZeroNow == IF NeedsNewRun THEN FALSE ELSE ABZero
ObsNewRun(o) ==
    IF NeedsNewRun
    THEN [o EXCEPT !.abSeen = FALSE, !.abSince = 0, !.acDone = FALSE]
    ELSE o

\* toolbar "Train" / "Step Run" / "Step Epoch": go ss.Train() etc.
TrainStart ==
    /\ pc = "wake"
    /\ ~IsRunning
    /\ IsRunning' = TRUE
    /\ caller' = "train"
    /\ UNCHANGED <<simv, scen, pc, seq, cfgVars, cyc, detVars, netVars, obs>>
    /\ StopNow' = FALSE
    /\ UNCHANGED trnVars
    /\ UNCHANGED lrnVars

\* Stopped(), at the end of Train / TrainRun / TrainEpoch
Stopped ==
    /\ pc = "wake"
    /\ caller = "train"
    /\ seq = 0
    /\ ~crit
    /\ IsRunning' = FALSE
    /\ caller' = "none"
    /\ UNCHANGED <<simv, scen, pc, seq, cfgVars, cyc, detVars, netVars, obs>>
    /\ UNCHANGED <<trnVars, StopNow>>
    /\ UNCHANGED lrnVars

\* TrainTrial, the ordinary path: ApplyInputs, AlphaCyc(true), TrialStats
TrainTrialWake ==
    /\ pc = "wake"
    /\ caller = "train"
    /\ seq = 0
    /\ ~crit
    /\ Table' = TableNow
    /\ ABZero' = ABZeroNow
    /\ NeedsNewRun' = FALSE
    /\ obs' = [ObsNewRun(obs) EXCEPT !.wakeSd = obs.wakeSd \/ SdInstalled]
    /\ UNCHANGED <<ctlVars, cfgVars, cyc, detVars, netVars, ABover, ACZero,
                   TrainABSSE, TrainACSSE, crit, StopNow>>
    /\ UNCHANGED lrnVars

\* TrainTrial, once the learning criterion is met: the next bout of the
\* sleep sequence is set up and SleepTrial is called.  Simulation 2 turns
\* InhibOscil off, names the stage (SWS first, then REM, alternating) and
\* counts the bout; simulation 1 sleeps only if ExecSleep && SlpWrtOut.
SleepSeqBout ==
    /\ pc = "wake"
    /\ caller = "train"
    /\ crit
    /\ seq < BoutsDue(simv, SlpWrtOut)
    /\ seq' = seq + 1
    /\ pc' = "SleepTrial"
    /\ InhibOscil' = IF simv = 2 THEN FALSE ELSE InhibOscil
    /\ stage' = IF simv = 1 THEN stage
                ELSE IF seq % 2 = 0 THEN "SWS" ELSE "REM"
    /\ SleepCounter' = IF simv = 2 THEN SleepCounter + 1 ELSE SleepCounter
    /\ cycles' = Budget(scen)
    /\ obs' = [obs EXCEPT !.sdInits = 0, !.sdTerms = 0, !.preGi = Gi,
                           !.preSd = SdInstalled, !.preLrate = Lrate, !.abSeen = FALSE,
                           !.abSince = 0, !.acDone = FALSE]
    /\ UNCHANGED <<simv, scen, caller, IsRunning, SlpWrtOut, cyc, detVars,
                   netVars, trnVars, StopNow>>
    /\ UNCHANGED lrnVars

\* toolbar "Spontaneous Sleep Trial" (simulation 2):
\* go ss.SleepTrial("SWS", 10000); IsRunning is not cleared afterwards
GuiSleepTrial ==
    /\ simv = 2
    /\ pc = "wake"
    /\ ~IsRunning
    /\ IsRunning' = TRUE
    /\ caller' = "gui"
    /\ pc' = "SleepTrial"
    /\ stage' = "SWS"
    /\ cycles' = Budget(scen)
    /\ obs' = [obs EXCEPT !.sdInits = 0, !.sdTerms = 0, !.preGi = Gi,
                           !.preSd = SdInstalled, !.preLrate = Lrate]
    /\ UNCHANGED <<simv, scen, seq, SlpWrtOut, InhibOscil, SleepCounter, cyc,
                   detVars, netVars>>
    /\ UNCHANGED <<trnVars, StopNow>>
    /\ UNCHANGED lrnVars

\* the stage names SleepCyc knows
KnownStages == {"SWS", "REM"}

\* arguments of a direct call of SleepTrial(stage, cycles) in simulation 2:
\* a budget of 0 with any stage, and a stage name SleepCyc does not know
CallArgs ==
    {<<"SWS", 0>>, <<"REM", 0>>, <<"Wake", 0>>, <<"Wake", Budget("none")>>}

\* ss.SleepTrial(stage, cycles) called directly while nothing is running
SleepTrialCall ==
    /\ simv = 2
    /\ pc = "wake"
    /\ ~IsRunning
    /\ \E a \in CallArgs :
         /\ stage' = a[1]
         /\ cycles' = a[2]
    /\ caller' = "call"
    /\ pc' = "SleepTrial"
    /\ obs' = [obs EXCEPT !.sdInits = 0, !.sdTerms = 0, !.preGi = Gi,
                           !.preSd = SdInstalled, !.preLrate = Lrate]
    /\ UNCHANGED <<simv, scen, IsRunning, seq, SlpWrtOut, InhibOscil,
                   SleepCounter, cyc, detVars, netVars>>
    /\ UNCHANGED <<trnVars, StopNow>>
    /\ UNCHANGED lrnVars

\* InitSdEffWt / TermSdEffWt on every layer, under "if ss.SynDep"
SdAfterInit(sd) == IF SynDep THEN TRUE ELSE sd

SdAfterTermKept(sd) == sd

SdAfterTerm(sd) == IF SynDep THEN FALSE ELSE sd

\* SleepCycInit: layers hidden, activations randomised, and at its end
\* synaptic depression installed (InitSdEffWt on every layer)
SleepCycInit ==
    /\ pc = "SleepTrial"
    /\ pc' = "SleepCyc"
    /\ SdInstalled' = SdAfterInit(SdInstalled)
    /\ obs' = [obs EXCEPT !.sdInits = IF SynDep THEN obs.sdInits + 1
                                      ELSE obs.sdInits]
    /\ UNCHANGED <<simv, scen, caller, IsRunning, seq, cfgVars, cyc, detVars,
                   Gi, snap>>
    /\ UNCHANGED <<trnVars, StopNow>>
    /\ UNCHANGED lrnVars

\* SleepCyc up to the loop head: counters zeroed, SlpTrls zeroed, the
\* inhibition conductances read into locals
SleepCycStart ==
    /\ pc = "SleepCyc"
    /\ pc' = "loop"
    /\ stablecount' = 0
    /\ pluscount' = 0
    /\ minuscount' = 0
    /\ SlpTrls' = 0
    /\ snap' = TakeSnapshot(simv, Gi)
    /\ cyc' = 0
    /\ obs' = [obs EXCEPT !.branch = "none", !.dwtNow = FALSE, !.dwt = 0,
                           !.completed = 0, !.minusEntry = "none",
                           !.dwtEntry = "none", !.actP = -1, !.actM = -1,
                           !.same = TRUE, !.v0 = 0, !.stopCyc = 0,
                           !.stopIn = FALSE, !.run = 0, !.netGi = << >>,
                           !.dwtLearn = {}]
    /\ UNCHANGED <<simv, scen, caller, IsRunning, seq, cfgVars, PlusPhase,
                   MinusPhase, AvgLaySim, Gi, SdInstalled>>
    /\ UNCHANGED <<trnVars, StopNow>>
    /\ Lrate' = IF simv = 1 THEN SleepLrate(1) ELSE Lrate
    /\ Learn' = IF simv = 1 THEN LearnOff(1, Learn) ELSE Learn

DetState ==
    [PlusPhase |-> PlusPhase, MinusPhase |-> MinusPhase,
     stablecount |-> stablecount, pluscount |-> pluscount,
     minuscount |-> minuscount, branch |-> "none", actP |-> -1, actM |-> -1]

\* what one cycle adds to the observations
ObsCycle(o, s, d) ==
    LET issued == DWtIssued(s, d)
    IN [o EXCEPT
          !.branch = d.branch,
          !.dwtNow = issued,
          !.dwt = IF issued THEN o.dwt + 1 ELSE o.dwt,
          !.completed = IF d.branch = "minusEnd" /\ o.minusEntry = "plus"
                        THEN o.completed + 1 ELSE o.completed,
          !.dwtEntry = IF issued THEN o.minusEntry ELSE o.dwtEntry,
          !.minusEntry = IF d.branch = "toMinus" THEN "plus"
                         ELSE IF d.branch \in {"minusEnd", "abort", "plusStart"}
                         THEN "none" ELSE o.minusEntry,
          !.actP = d.actP,
          !.actM = d.actM]

\* whether ss.AvgLaySim has had one and the same value in every cycle of the
\* bout so far, and that value (0 once it has varied); i is the cycle index
\* passes of the cycle loop of this bout begun with StopNow set (2 = more)
ObsStop(o, stop) ==
    IF stop /\ o.stopCyc < 2 THEN [o EXCEPT !.stopCyc = o.stopCyc + 1] ELSE o

\* length of the run of consecutive cycles, up to the one just run, that
\* began in Quiescent and had a stability of at least the plus threshold
\* (6 = more); q: the cycle began in Quiescent
ObsRun(o, q, a, p) ==
    [o EXCEPT !.run = IF q /\ GE(a, p)
                      THEN (IF o.run > StableLen THEN o.run ELSE o.run + 1)
                      ELSE 0]

\* Learn.Learn between the head and the tail of a pass of the loop
LearnInCycle(s, lrn) == IF s = 2 THEN LearnOff(2, lrn) ELSE lrn

\* the projections SleepCyc switches on again that had Learn.Learn true
\* when the pass issued the weight update
ObsLearn(o, s, d, lrn) ==
    IF DWtIssued(s, d)
    THEN [o EXCEPT !.dwtLearn = {q \in OnPrjns(s) : lrn[q]}]
    ELSE o

\* the conductances in force during ss.Net.Cycle of the pass: those the
\* pass began with, the oscillation step coming after the network step
ObsNet(o, gi) == [o EXCEPT !.netGi = gi]

ObsStability(o, i, a) ==
    LET same == IF i = 0 THEN TRUE ELSE o.same /\ a = o.v0
    IN [o EXCEPT !.same = same, !.v0 = IF same THEN a ELSE 0]

\* one pass of the cycle loop: WtFmDWt, Net.Cycle, the oscillation step for
\* index cyc, the stability average, the phase detector
SleepCycle ==
    /\ pc = "loop"
    /\ cyc < cycles
    /\ \E in \in CycleInputs(simv, stage, scen, cyc) :
         LET oscil == IF simv = 1 THEN TRUE ELSE InhibOscil
             avg   == CalcAvgLaySim(simv, stage, LaySim(simv, in), LayAct(simv, in))
             d     == IF SlpLearn
                      THEN PhaseDetect(DetState, avg,
                                       PlusThresh(simv, stage, scen),
                                       MinusThresh(simv, stage, scen))
                      ELSE DetState
         IN /\ InhibOscil' = oscil
            /\ Gi' = IF oscil THEN OscilGi(simv, snap, Gi, cyc) ELSE Gi
            /\ AvgLaySim' = avg
            /\ PlusPhase' = d.PlusPhase
            /\ MinusPhase' = d.MinusPhase
            /\ stablecount' = d.stablecount
            /\ pluscount' = d.pluscount
            /\ minuscount' = d.minuscount
            /\ SlpTrls' = SlpTrlsAfter(simv, d, SlpTrls)
            /\ obs' = ObsLearn(ObsNet(ObsRun(ObsStop(ObsStability(
                                 ObsCycle(obs, simv, d), cyc, avg), StopNow),
                                 ~PlusPhase /\ ~MinusPhase, avg,
                                 PlusThresh(simv, stage, scen)), Gi),
                               simv, d, LearnInCycle(simv, Learn))
    /\ cyc' = cyc + 1
    /\ Lrate' = IF simv = 2 THEN SleepLrate(2) ELSE Lrate
    /\ Learn' = IF simv = 2 THEN LearnOn(2, LearnInCycle(2, Learn)) ELSE Learn
    /\ UNCHANGED <<ctlVars, SlpWrtOut, SleepCounter, stage, cycles, snap,
                   SdInstalled>>
    /\ UNCHANGED <<trnVars, StopNow>>

\* the phase flags after the reset that follows the loop
ResetPhase(b) == FALSE

\* SleepCyc after the loop, the path to its end: the sleep variables are
\* reset and every snapshotted conductance is written back
SleepCycFinish ==
    /\ pc = "loop"
    /\ cyc >= cycles
    /\ pc' = "BackToWake"
    /\ pluscount' = 0
    /\ minuscount' = 0
    /\ stablecount' = 0
    /\ MinusPhase' = ResetPhase(MinusPhase)
    /\ PlusPhase' = ResetPhase(PlusPhase)
    /\ Gi' = RestoreGi(simv, snap, Gi)
    /\ obs' = [obs EXCEPT !.branch = "finish", !.dwtNow = FALSE]
    /\ UNCHANGED <<simv, scen, caller, IsRunning, seq, cfgVars, cyc, SlpTrls,
                   AvgLaySim, snap, SdInstalled>>
    /\ UNCHANGED <<trnVars, StopNow>>
    /\ Lrate' = IF simv = 1 THEN WakeLrate ELSE Lrate
    /\ Learn' = IF simv = 1 THEN LearnOn(1, Learn) ELSE Learn

\* SleepCyc after the loop in simulation 2, first bout with
\* SlpPatMatchWrtOut: reading params.go / simulation_2.go or writing the
\* copies fails and SleepCyc returns at once
SleepCycEarlyReturn ==
    /\ pc = "loop"
    /\ cyc >= cycles
    /\ simv = 2
    /\ SleepCounter = 1
    /\ SlpWrtOut
    /\ pc' = "BackToWake"
    /\ obs' = [obs EXCEPT !.branch = "return", !.dwtNow = FALSE]
    /\ UNCHANGED <<simv, scen, caller, IsRunning, seq, cfgVars, cyc, detVars,
                   netVars>>
    /\ UNCHANGED <<trnVars, StopNow>>
    /\ UNCHANGED lrnVars

\* BackToWake: TermSdEffWt on every layer, layer types back to wake
BackToWake ==
    /\ pc = "BackToWake"
    /\ pc' = IF caller = "train" THEN "TestAll" ELSE "wake"
    /\ SdInstalled' = SdAfterTerm(SdInstalled)
    /\ obs' = [obs EXCEPT !.sdTerms = IF SynDep THEN obs.sdTerms + 1
                                      ELSE obs.sdTerms]
    /\ UNCHANGED <<simv, scen, caller, IsRunning, seq, cfgVars, cyc, detVars,
                   Gi, snap>>
    /\ UNCHANGED <<trnVars, StopNow>>
    /\ UNCHANGED lrnVars

\* the test epoch TrainTrial runs after each bout
TestAll ==
    /\ pc = "TestAll"
    /\ pc' = "wake"
    /\ obs' = [obs EXCEPT !.wakeSd = obs.wakeSd \/ SdInstalled]
    /\ UNCHANGED <<simv, scen, caller, IsRunning, seq, cfgVars, cyc, detVars,
                   netVars>>
    /\ UNCHANGED <<trnVars, StopNow>>
    /\ UNCHANGED lrnVars

\* TrainTrial after the last bout of the sequence: the sleep counters are
\* reset (simulation 2), RunEnd, the run counter advances
SleepSeqEnd ==
    /\ pc = "wake"
    /\ caller = "train"
    /\ crit
    /\ seq = BoutsDue(simv, SlpWrtOut)
    /\ seq' = 0
    /\ SleepCounter' = 0
    /\ stage' = IF simv = 2 THEN "PreSleep" ELSE stage
    /\ SlpTrls' = IF simv = 2 THEN 0 ELSE SlpTrls
    /\ ABZero' = IF simv = 2 THEN FALSE ELSE ABZero
    /\ ACZero' = IF simv = 2 THEN FALSE ELSE ACZero
    /\ NeedsNewRun' = TRUE
    /\ crit' = FALSE
    /\ UNCHANGED <<simv, scen, pc, caller, IsRunning, SlpWrtOut, InhibOscil,
                   cycles, cyc, PlusPhase, MinusPhase, stablecount, pluscount,
                   minuscount, AvgLaySim, netVars, Table, ABover, TrainABSSE,
                   TrainACSSE, StopNow, obs>>
    /\ UNCHANGED lrnVars

\* TrainTrial at the end of an epoch whose test meets the learning
\* criterion, as one step: simulation 1 has EpcShPctCor and EpcUnPctCor at
\* 0.66 or more; simulation 2 is on Env 2 with zero TestACSSE and TrainACSSE.
\* The epochs that lead here are the steps of TrainEpochEnd.
TrainTrialCriterion ==
    /\ pc = "wake"
    /\ caller = "train"
    /\ seq = 0
    /\ ~crit
    /\ ~NeedsNewRun
    /\ crit' = TRUE
    /\ Table' = IF simv = 2 THEN "AC" ELSE Table
    /\ ABZero' = (simv = 2)
    /\ ACZero' = (simv = 2)
    /\ obs' = [obs EXCEPT !.wakeSd = obs.wakeSd \/ SdInstalled]
    /\ UNCHANGED <<ctlVars, cfgVars, cyc, detVars, netVars, ABover,
                   TrainABSSE, TrainACSSE, NeedsNewRun, StopNow>>
    /\ Lrate' = IF simv = 2 THEN WakeLrate ELSE Lrate
    /\ UNCHANGED Learn

\* history of the run's training epochs, kept until the first bout: an
\* Env 1 epoch with zero training and test
\* error has ended (abSeen), the Env 1 epochs that ended after the first
\* such epoch (abSince, counted up to OverTrain), an Env 2 epoch with zero
\* training and test error has ended (acDone)
ObsEpoch(o, tab, tz, tAB, tAC) ==
    [o EXCEPT !.abSeen = o.abSeen \/ (tab = "AB" /\ tz = 0 /\ tAB = 0),
              !.abSince = IF tab = "AB" /\ o.abSeen /\ o.abSince < OverTrain
                          THEN o.abSince + 1 ELSE o.abSince,
              !.acDone = o.acDone \/ (tab = "AC" /\ tz = 0 /\ tAC = 0)]

\* TrainTrial when the epoch counter has changed: LogTrnEpc, TestAll, then
\* the tests of the learning criterion.  tz is the epoch's training SSE
\* (0, or 1 for any other value), tAB and tAC the test SSE on the two
\* environments, ok66 the 0.66 criterion of simulation 1, maxed
\* "epc >= ss.MaxEpcs".  ABover is counted up to OverTrain + 1: all larger
\* values fail "ss.ABover == 30" alike.
TrainEpochEnd ==
    /\ pc = "wake"
    /\ caller = "train"
    /\ seq = 0
    /\ ~crit
    /\ ~NeedsNewRun
    /\ \E tz \in {0, 1}, tAB \in {0, 1}, tAC \in {0, 1},
          ok66 \in BOOLEAN, maxed \in BOOLEAN :
          LET trAB == IF Table = "AB" THEN tz ELSE TrainABSSE
              trAC == IF Table = "AC" THEN tz ELSE TrainACSSE
              over == IF tAB = 0 /\ trAB = 0
                      THEN (IF ABover > OverTrain THEN ABover ELSE ABover + 1)
                      ELSE 0
              learnedAB == over = OverTrain
              switch == Table = "AB" /\ learnedAB
              tab == IF switch THEN "AC" ELSE Table
              learnedAC == tAC = 0 /\ trAC = 0
              met == IF simv = 1 THEN ok66 ELSE (tab = "AC" /\ learnedAC)
          IN  /\ TrainABSSE' = IF simv = 2 THEN trAB ELSE TrainABSSE
              /\ TrainACSSE' = IF simv = 2 THEN trAC ELSE TrainACSSE
              /\ ABover' = IF simv = 2 THEN over ELSE ABover
              /\ Table' = IF simv = 2 THEN tab ELSE Table
              /\ ABZero' = IF simv = 2 /\ switch THEN TRUE ELSE ABZero
              /\ ACZero' = IF simv = 2 /\ met THEN TRUE ELSE ACZero
              /\ Lrate' = IF simv = 2 /\ switch THEN WakeLrate ELSE Lrate
              /\ crit' = met
              /\ NeedsNewRun' = (~met /\ maxed)
              /\ obs' = [ObsEpoch(obs, Table, tz, tAB, tAC)
                         EXCEPT !.wakeSd = obs.wakeSd \/ SdInstalled]
    /\ UNCHANGED <<ctlVars, cfgVars, cyc, detVars, netVars, StopNow, Learn>>

\* toolbar "Stop": ss.Stop(); stopIn records that the cycle loop of a bout
\* was running
Stop ==
    /\ IsRunning
    /\ ~StopNow
    /\ StopNow' = TRUE
    /\ obs' = [obs EXCEPT !.stopIn = (pc = "loop")]
    /\ UNCHANGED <<ctlVars, cfgVars, cyc, detVars, netVars, trnVars>>
    /\ UNCHANGED lrnVars

Next ==
    \/ TrainStart
    \/ Stopped
    \/ TrainTrialWake
    \/ TrainTrialCriterion
    \/ SleepSeqBout
    \/ GuiSleepTrial
    \/ SleepTrialCall
    \/ SleepCycInit
    \/ SleepCycStart
    \/ SleepCycle
    \/ SleepCycFinish
    \/ SleepCycEarlyReturn
    \/ BackToWake
    \/ TestAll
    \/ SleepSeqEnd

Spec == Init /\ [][Next]_vars

-----------------------------------------------------------------------------
(***************************************************************************)
(* Scenario bouts: the sleep sequence of a training run in which the       *)
(* engine reports the stability sequence of scenario A or B and the        *)
(* detector runs with the scenario's thresholds.                           *)
(***************************************************************************)
InitScen ==
    /\ InitCommon
    /\ Table = IF simv = 2 THEN "AC" ELSE RunTable(simv)
    /\ ABZero = (simv = 2)
    /\ ACZero = (simv = 2)
    /\ crit = TRUE
    /\ scen \in {"A", "B"}
    /\ caller = "train"
    /\ IsRunning = TRUE
    /\ SlpWrtOut = (simv = 1)

NextScen ==
    \/ Stop
    \/ SleepSeqBout
    \/ SleepCycInit
    \/ SleepCycStart
    \/ SleepCycle
    \/ SleepCycFinish
    \/ BackToWake
    \/ TestAll
    \/ SleepSeqEnd

ScenSpec == InitScen /\ [][NextScen]_vars

\* Training from the first epoch of the first run: Train has been pressed,
\* every epoch end draws its error values, and the bouts of the sleep
\* sequence follow stability schedule B.
InitTrainRun ==
    /\ InitCommon
    /\ InitTrain
    /\ scen = "B"
    /\ caller = "train"
    /\ IsRunning = TRUE
    /\ SlpWrtOut = FALSE

NextTrain ==
    \/ TrainTrialWake
    \/ TrainEpochEnd
    \/ SleepSeqBout
    \/ SleepCycInit
    \/ SleepCycStart
    \/ SleepCycle
    \/ SleepCycFinish
    \/ BackToWake
    \/ TestAll
    \/ SleepSeqEnd

TrainSpec == InitTrainRun /\ [][NextTrain]_vars

-----------------------------------------------------------------------------
(* Properties *)

Phase ==
    IF PlusPhase THEN (IF MinusPhase THEN "Both" ELSE "Plus")
    ELSE IF MinusPhase THEN "Minus" ELSE "Quiescent"

PhaseEdges ==
    {<<"Quiescent", "Plus">>, <<"Plus", "Minus">>, <<"Plus", "Quiescent">>,
     <<"Minus", "Quiescent">>}

InBout == pc \in {"SleepCyc", "loop", "BackToWake"}
AfterSleepCyc == pc \in {"BackToWake", "TestAll", "wake"} /\ snap # << >>
\* index of the cycle the loop has just run
LastCyc == cyc - 1

\* C1: the phase changes from one step to the next only along
\* Quiescent->Plus, Plus->Minus, Plus->Quiescent and Minus->Quiescent.
C1_PhaseEdges ==
    [][Phase' # Phase => <<Phase, Phase'>> \in PhaseEdges]_vars

\* a full Quiescent->Plus->Minus->Quiescent round has been walked
C1_Witness ==
    pc = "loop" /\ obs.branch = "minusEnd" /\ obs.completed >= 1
    /\ Phase = "Quiescent"

\* C2: PlusPhase and MinusPhase are never both true, in a bout and between
\* bouts.
C2_OnePhase == ~(PlusPhase /\ MinusPhase)

\* the cycle that switches from Plus to Minus has just run
C2_Witness == pc = "loop" /\ obs.branch = "toMinus" /\ MinusPhase

\* C3: a weight update is issued only in a cycle in which a Minus phase
\* ends, and that Minus phase was entered from a Plus phase of the same bout.
C3_DWtOnlyAfterPlusMinus ==
    obs.dwtNow => (obs.branch = "minusEnd" /\ obs.dwtEntry = "plus")

\* C4: within a bout SlpTrls equals the number of completed plus->minus
\* cycles so far.
C4_SlpTrlsCountsEvents ==
    pc = "loop" => SlpTrls = obs.completed

\* C5: a cycle that finds the phase Plus and the stability below
\* minusThreshold leaves the phase Quiescent and the three counters 0,
\* issues no weight update and leaves SlpTrls unchanged.
C5_AbortOnDrop ==
    [][(/\ pc = "loop" /\ pc' = "loop" /\ cyc' = cyc + 1
        /\ PlusPhase
        /\ LT(AvgLaySim', MinusThresh(simv, stage, scen)))
       => (/\ Phase' = "Quiescent"
           /\ stablecount' = 0 /\ pluscount' = 0 /\ minuscount' = 0
           /\ ~obs'.dwtNow /\ obs'.dwt = obs.dwt
           /\ SlpTrls' = SlpTrls)]_vars

\* the abort branch has just been taken from a Plus phase that had lasted
\* several cycles
C5_Witness ==
    pc = "loop" /\ obs.branch = "abort" /\ cyc >= StableLen + 2
    /\ LT(AvgLaySim, MinusThresh(simv, stage, scen))

\* C6: whenever SleepCyc has returned, every snapshotted layer has its
\* snapshot conductance and both phase flags are false.
C6_NothingLeftBehind ==
    AfterSleepCyc =>
        /\ \A l \in SnapLayers(simv) : Gi[l] = snap[l]
        /\ ~PlusPhase /\ ~MinusPhase

\* C7: after a bout whose cycle loop ran to its end every snapshotted layer
\* has the conductance it had before the bout.
C7_InhibRestored ==
    AfterSleepCyc => \A l \in SnapLayers(simv) : Gi[l] = obs.preGi[l]

\* a bout with oscillating inhibition has run all its cycles and returned
C7_Witness ==
    pc = "BackToWake" /\ obs.branch = "finish" /\ InhibOscil
    /\ cyc = cycles /\ cycles > 0

\* C8: depression is installed once per bout at the end of SleepCycInit,
\* removed once in BackToWake, is installed in no state outside that
\* interval, and no wake trial or test runs with it installed.
C8_DepressionBracketed ==
    /\ SdInstalled <=> InBout
    /\ InBout => (obs.sdInits = 1 /\ obs.sdTerms = 0)
    /\ pc = "SleepTrial" => (obs.sdInits = 0 /\ obs.sdTerms = 0)
    /\ (pc \in {"TestAll", "wake"} /\ snap # << >>)
          => (obs.sdInits = 1 /\ obs.sdTerms = 1)
    /\ ~obs.wakeSd

\* the test epoch after a bout that returned early is about to run
C8_Witness ==
    pc = "TestAll" /\ obs.branch = "return" /\ obs.sdTerms = 1

\* C9: scenario B enters Minus at cycle 10, ends Minus at cycle 20 with a
\* minus count of 10, issues one weight update in the bout and finishes
\* with SlpTrls = 1.
C9_ScenarioB ==
    (scen = "B" /\ pc \in {"loop", "BackToWake"} /\ cyc > 0) =>
        /\ obs.branch = "toMinus" <=> (pc = "loop" /\ LastCyc = 10)
        /\ obs.branch = "minusEnd" <=> (pc = "loop" /\ LastCyc = 20)
        /\ obs.branch = "minusEnd" => obs.actM = 10
        /\ obs.dwt = IF LastCyc >= 20 THEN 1 ELSE 0
        /\ pc = "BackToWake" => SlpTrls = 1

C11_ConstantHigh ==
    (/\ pc \in {"loop", "BackToWake"} /\ cyc > 0 /\ obs.same
     /\ GE(obs.v0, PlusThresh(simv, stage, scen)))
    => /\ obs.dwt = 0 /\ SlpTrls = 0
       /\ (pc = "loop" /\ cyc < StableLen) =>
              (Phase = "Quiescent" /\ stablecount = cyc)
       /\ (pc = "loop" /\ cyc >= StableLen) =>
              (Phase = "Plus" /\ pluscount = cyc - StableLen + 1)

\* C12: after SleepTrial has returned from a bout with a cycle budget of 0
\* no weight update was issued, SlpTrls is 0, every layer has the inhibition
\* conductance it had before the bout and depression is as before the bout.
C12_ZeroBudget ==
    (cycles = 0 /\ caller = "call" /\ pc \in {"loop", "BackToWake", "wake"})
    => /\ obs.dwt = 0 /\ SlpTrls = 0 /\ cyc = 0
       /\ pc = "wake" =>
            /\ \A l \in NetLayers(simv) : Gi[l] = obs.preGi[l]
            /\ SdInstalled = obs.preSd

\* SleepTrial has returned from a bout with budget 0
C12_Witness ==
    /\ cycles = 0 /\ caller = "call" /\ pc = "wake"
    /\ obs.branch = "finish" /\ obs.sdInits = 1 /\ obs.sdTerms = 1

\* C14: a bout requested with a stage name that is not recognised is
\* rejected before anything is changed: depression is not installed and the
\* cycle loop is not entered.
C14_InvalidRejected ==
    (caller = "call" /\ stage \notin KnownStages)
    => /\ pc \notin {"SleepCyc", "loop", "BackToWake"}
       /\ ~SdInstalled /\ obs.sdInits = 0

\* C15: in every cycle of every bout each layer of the low and of the high
\* group has the conductance baseline * gain of its group for that cycle.
C15_OscillationApplied ==
    (pc = "loop" /\ cyc > 0) =>
        \A l \in LowLayers(simv) \cup HighLayers(simv) :
            Gi[l] = OscilGi(simv, snap, Gi, LastCyc)[l]

\* C16: the gain the schedule holds for a cycle index equals the gain it
\* holds OscillPeriod indices earlier, for both groups.
C16_SchedulePeriodic ==
    (pc = "loop" /\ LastCyc >= OscillPeriod) =>
        \A g \in {"low", "high"} :
            Gain(simv, g, LastCyc) = Gain(simv, g, LastCyc - OscillPeriod)

C13_StopEndsLoop ==
    (pc \in {"loop", "BackToWake"} /\ obs.stopIn) => obs.stopCyc <= 1

\* C17: in simulation 1 with the flags New() installs (SlpWrtOut off), the
\* run that met the 0.66 criterion ends only after one sleep bout has run.
C17_SleepBeforeRunEnd ==
    [][(simv = 1 /\ ~SlpWrtOut /\ crit /\ ~crit') => seq = 1]_vars

\* C19: in simulation 2 the sleep sequence of a run starts only after an
\* Env 2 training epoch of that run has ended with zero training error and
\* zero test error on Env 2.
C19_Env2LearnedBeforeSleep ==
    (simv = 2 /\ crit /\ pc = "wake" /\ seq = 0) => obs.acDone

\* C20: in simulation 2 training has switched to Env 2 only after OverTrain further
\* Env 1 epochs have ended since the first Env 1 epoch of the run with zero
\* training and test error.
C20_ThirtyMoreEpochs ==
    (simv = 2 /\ Table = "AC" /\ pc = "wake" /\ seq = 0 /\ ~NeedsNewRun)
    => obs.abSince >= OverTrain


\* C21: Plus is entered only by a cycle that completes a run of exactly
\* StableLen consecutive Quiescent cycles with stability >= plusThreshold,
\* and stablecount is 0 after that cycle; a Quiescent cycle with stability
\* below plusThreshold sets stablecount to 0.
C21_DebouncedPlus ==
    [][(pc = "loop" /\ pc' = "loop" /\ cyc' = cyc + 1) =>
         /\ (~PlusPhase /\ PlusPhase') =>
                (/\ ~MinusPhase /\ obs'.run = StableLen /\ stablecount' = 0
                 /\ GE(AvgLaySim', PlusThresh(simv, stage, scen)))
         /\ (~PlusPhase /\ ~MinusPhase
             /\ LT(AvgLaySim', PlusThresh(simv, stage, scen)))
                => stablecount' = 0]_vars

\* Plus has just been entered after an earlier run was cut short by a
\* cycle below the threshold
C21_Witness ==
    /\ pc = "loop" /\ obs.branch = "plusStart" /\ obs.run = StableLen
    /\ cyc > StableLen /\ cyc < 2 * StableLen /\ obs.dwt = 0
    /\ stablecount = 0 /\ PlusPhase


C23_OpenWindowDiscarded ==
    [][(pc = "loop" /\ pc' = "BackToWake" /\ (PlusPhase \/ MinusPhase)) =>
         /\ ~obs'.dwtNow /\ obs'.dwt = obs.dwt
         /\ SlpTrls' = SlpTrls
         /\ ~PlusPhase' /\ ~MinusPhase'
         /\ pluscount' = 0 /\ minuscount' = 0 /\ stablecount' = 0]_vars


\* C28: the detector state a bout starts its first cycle from is the same
\* whatever happened before the bout: Quiescent, the three counters and
\* SlpTrls at 0.  (From equal start states equal stability sequences give
\* equal phase sequences, PhaseDetect being a function.)
C28_BoutStartFixed ==
    (pc = "loop" /\ cyc = 0) =>
        /\ ~PlusPhase /\ ~MinusPhase
        /\ stablecount = 0 /\ pluscount = 0 /\ minuscount = 0
        /\ SlpTrls = 0

\* C29: after every cycle of a bout the plus count is positive exactly in
\* Plus, the minus count is positive exactly in Minus, and the stable count
\* is between 0 and StableLen - 1 and 0 in Plus and in Minus.
C29_CountersMatchPhase ==
    (pc = "loop" /\ cyc > 0) =>
        /\ pluscount > 0 <=> Phase = "Plus"
        /\ minuscount > 0 <=> Phase = "Minus"
        /\ stablecount \in 0..(StableLen - 1)
        /\ Phase \in {"Plus", "Minus"} => stablecount = 0

\* C30: CalcActP and CalcActM are never called with a count of 0.
C30_DivisorPositive ==
    obs.actP # 0 /\ obs.actM # 0


C27_GainBeforeNetStep ==
    (pc = "loop" /\ cyc > 0 /\ (simv = 1 \/ InhibOscil)) =>
        /\ \A l \in LowLayers(simv) :
              obs.netGi[l] = (obs.preGi[l] * Gain(simv, "low", LastCyc)) \div 10000
        /\ \A l \in HighLayers(simv) :
              obs.netGi[l] = (obs.preGi[l] * Gain(simv, "high", LastCyc)) \div 10000


\* C24: when SleepCyc has returned the learning rate is the one from
\* immediately before the bout, and the training trial that begins the
\* next run does not run with the sleep learning rate.
C24_LrateRestored ==
    [][/\ (pc = "BackToWake" /\ pc' # "BackToWake") => Lrate = obs.preLrate
       /\ (pc = "wake" /\ NeedsNewRun /\ ~NeedsNewRun')
             => Lrate # SleepLrate(simv)]_vars

\* C25: whenever the weight update is issued every projection that the
\* bout switches on again has Learn.Learn false, and when SleepCyc has
\* returned all of them have Learn.Learn true.
C25_FrozenAtDWt ==
    /\ obs.dwtNow => obs.dwtLearn = {}
    /\ (pc = "BackToWake" /\ cyc > 0) => \A q \in OnPrjns(simv) : Learn[q]

==============================================================================
